---- MODULE Spec2Model ----
(***************************************************************************)
(* SR3 (sparse relaxed regularized regression) optimizer of pysindy:       *)
(* construction, and the alternating full-update / sparse-update loop of   *)
(* SR3._reduce with its convergence criterion.                             *)
(*                                                                         *)
(* Numbers are IEEE-754 binary64 floats and every operation rounds as the  *)
(* hardware does.  Vectors are sequences of floats, matrices are sequences *)
(* of rows.  Sums and triangular solves run in the order of the reference  *)
(* BLAS and LAPACK.                                                        *)
(***************************************************************************)
EXTENDS Integers, Sequences, FiniteSets, TLC

VARIABLES
    inst,            \* what the caller of SR3(...) got: "none", "ok", "ValueError", "NotImplementedError"
    args,            \* the arguments the constructor was called with
    threshold, nu, tol, thresholder, prox, max_iter,   \* self.<hyperparameter>
    iters,           \* self.iters
    history_,        \* self.history_
    coef_,           \* self.coef_
    coef_full_,      \* self.coef_full_
    pc,              \* position of the fit call in progress
    x, y,            \* arguments of _reduce
    guess,           \* the initial guess the caller placed in coef_
    coef_sparse, coef_full, cho, x_transpose_y, loop_i,  \* locals of _reduce
    warning,         \* what became of the ConvergenceWarning of the current fit call
    exit_,           \* how the loop of the current fit call ended
    prev             \* inputs and results of the last fit call that returned

hyper == <<threshold, nu, tol, thresholder, prox, max_iter>>
attrs == <<iters, history_, coef_, coef_full_>>
frame == <<x, y, guess, coef_sparse, coef_full, cho, x_transpose_y, loop_i>>
vars  == <<inst, args, hyper, attrs, pc, frame, warning, exit_, prev>>

\* warnings.warn was called by the current fit call
warned == warning # "none"

\* Largest max_iter a constructor call is given.
MaxIter == 3

\* An attribute or local that has not been assigned: by type of the value it would hold.
Unset == <<>>
UnsetName == "unset"
UnsetInt == 0 - 1

---------------------------------------------------------------------------
(* Natural numbers of any size: little-endian sequences of limbs in        *)
(* 0..Base-1 without leading zero limbs, <<>> being 0.                     *)

LimbBits == 15
Base == 2^LimbBits
Limbs == Seq(Nat)

Pow2[k \in Nat] == 2^k
Max[a \in Int, b \in Int] == IF a >= b THEN a ELSE b
\* number of bits of a machine integer
ILen[n \in Nat] == IF n = 0 THEN 0 ELSE 1 + ILen[n \div 2]
Limb[a \in Limbs, i \in Nat] == IF i >= 1 /\ i <= Len(a) THEN a[i] ELSE 0
ZeroLimbs[n \in Nat] == [i \in 1..n |-> 0]
BTrim[a \in Limbs] ==
    IF a = <<>> THEN a
    ELSE IF a[Len(a)] = 0 THEN BTrim[SubSeq(a, 1, Len(a) - 1)] ELSE a

BCmpAt[a \in Limbs, b \in Limbs, i \in Nat] ==
    IF i = 0 THEN 0
    ELSE IF a[i] < b[i] THEN -1
    ELSE IF a[i] > b[i] THEN 1
    ELSE BCmpAt[a, b, i - 1]
\* -1, 0 or 1 as a < b, a = b or a > b
BCmp[a \in Limbs, b \in Limbs] ==
    IF Len(a) < Len(b) THEN -1
    ELSE IF Len(a) > Len(b) THEN 1
    ELSE BCmpAt[a, b, Len(a)]

BAddAt[a \in Limbs, b \in Limbs, i \in Nat, c \in Nat] ==
    IF i > Len(a) /\ i > Len(b) THEN (IF c = 0 THEN <<>> ELSE <<c>>)
    ELSE <<(Limb[a, i] + Limb[b, i] + c) % Base>>
             \o BAddAt[a, b, i + 1, (Limb[a, i] + Limb[b, i] + c) \div Base]
BAdd[a \in Limbs, b \in Limbs] == BAddAt[a, b, 1, 0]

BSubAt[a \in Limbs, b \in Limbs, i \in Nat, c \in Nat] ==
    IF i > Len(a) THEN <<>>
    ELSE IF a[i] - Limb[b, i] - c < 0
         THEN <<a[i] - Limb[b, i] - c + Base>> \o BSubAt[a, b, i + 1, 1]
         ELSE <<a[i] - Limb[b, i] - c>> \o BSubAt[a, b, i + 1, 0]
\* a - b for a >= b
BSub[a \in Limbs, b \in Limbs] == BTrim[BSubAt[a, b, 1, 0]]

BMulSmallAt[a \in Limbs, k \in Nat, i \in Nat, c \in Nat] ==
    IF i > Len(a) THEN (IF c = 0 THEN <<>> ELSE <<c>>)
    ELSE <<(a[i] * k + c) % Base>> \o BMulSmallAt[a, k, i + 1, (a[i] * k + c) \div Base]
\* a * k for a limb k
BMulSmall[a \in Limbs, k \in Nat] == IF k = 0 THEN <<>> ELSE BMulSmallAt[a, k, 1, 0]

ShiftLimb[a \in Limbs] == IF a = <<>> THEN a ELSE <<0>> \o a
BMulAt[a \in Limbs, b \in Limbs, j \in Nat] ==
    IF j > Len(b) THEN <<>>
    ELSE BAdd[BMulSmall[a, b[j]], ShiftLimb[BMulAt[a, b, j + 1]]]
BMul[a \in Limbs, b \in Limbs] == BMulAt[a, b, 1]

\* number of bits of a
BBits[a \in Limbs] == IF a = <<>> THEN 0 ELSE LimbBits * (Len(a) - 1) + ILen[a[Len(a)]]
\* a * 2^n
BShl[a \in Limbs, n \in Nat] ==
    IF a = <<>> THEN a
    ELSE ZeroLimbs[(n \div LimbBits)] \o BMulSmall[a, Pow2[(n % LimbBits)]]
\* a \div 2^n
BShr[a \in Limbs, n \in Nat] ==
    IF Len(a) <= (n \div LimbBits) THEN <<>>
    ELSE BTrim[[i \in 1..(Len(a) - (n \div LimbBits)) |->
                   (a[i + (n \div LimbBits)] \div Pow2[(n % LimbBits)])
                   + (Limb[a, i + (n \div LimbBits) + 1] % Pow2[(n % LimbBits)])
                         * Pow2[LimbBits - (n % LimbBits)]]]
\* bit n of a, bit 0 being the lowest
BBit[a \in Limbs, n \in Nat] == (Limb[a, (n \div LimbBits) + 1] \div Pow2[(n % LimbBits)]) % 2
\* some bit of a below bit n is set
BLowNonzero[a \in Limbs, n \in Nat] ==
    \/ \E i \in 1..(n \div LimbBits) : Limb[a, i] # 0
    \/ Limb[a, (n \div LimbBits) + 1] % Pow2[(n % LimbBits)] # 0

\* the quotient limb: the estimate from the leading limbs, lowered until it fits
DivFix[rp \in Limbs, dp \in Limbs, q \in Nat] ==
    IF BCmp[BMulSmall[dp, q], rp] > 0 THEN DivFix[rp, dp, q - 1] ELSE q
DivEst[rp \in Limbs, dp \in Limbs] ==
    DivFix[rp, dp,
           IF (Limb[rp, Len(dp) + 1] * Base + Limb[rp, Len(dp)]) \div dp[Len(dp)] > Base - 1
           THEN Base - 1
           ELSE (Limb[rp, Len(dp) + 1] * Base + Limb[rp, Len(dp)]) \div dp[Len(dp)]]
\* long division of np by dp (leading limb of dp >= Base / 2), limb i of np
\* next: q = -1 brings the limb down into the remainder r, q = -2 finds the
\* quotient limb, q >= 0 subtracts q * dp and moves on
DivStep[np \in Limbs, dp \in Limbs, i \in Nat, r \in Limbs, acc \in Limbs, q \in Int] ==
    IF i = 0 THEN <<BTrim[acc], r>>
    ELSE IF q = -1 THEN DivStep[np, dp, i, BTrim[<<np[i]>> \o r], acc, -2]
    ELSE IF q = -2 THEN DivStep[np, dp, i, r, acc, DivEst[r, dp]]
    ELSE DivStep[np, dp, i - 1, BSub[r, BMulSmall[dp, q]], <<q>> \o acc, -1]
DivUnshift[qr \in Limbs \X Limbs, sh \in Nat] == <<qr[1], BShr[qr[2], sh]>>
\* <<n \div d, n % d>> for d # 0
BDivMod[n \in Limbs, d \in Limbs] ==
    DivUnshift[DivStep[BShl[n, LimbBits - ILen[d[Len(d)]]],
                       BShl[d, LimbBits - ILen[d[Len(d)]]],
                       Len(BShl[n, LimbBits - ILen[d[Len(d)]]]), <<>>, <<>>, -1],
               LimbBits - ILen[d[Len(d)]]]

\* Newton's iteration for the integer square root of a machine integer
ISqrtIntIter[t \in Nat, xx \in Nat, yy \in Nat] ==
    IF yy >= xx THEN xx ELSE ISqrtIntIter[t, yy, (yy + t \div yy) \div 2]
ISqrtInt[t \in Nat] == IF t = 0 THEN 0 ELSE ISqrtIntIter[t, t, (t + 1) \div 2]
\* the machine integer of at most two limbs
BInt[a \in Limbs] == Limb[a, 1] + Limb[a, 2] * Base
\* Newton's iteration for the integer square root, from above
NewtonNext[n \in Limbs, xx \in Limbs] == BShr[BAdd[xx, BDivMod[n, xx][1]], 1]
ISqrtIter[n \in Limbs, xx \in Limbs, yy \in Limbs] ==
    IF BCmp[yy, xx] >= 0 THEN xx ELSE ISqrtIter[n, yy, NewtonNext[n, yy]]
ISqrtStart[n \in Limbs, xx \in Limbs] == ISqrtIter[n, xx, NewtonNext[n, xx]]
\* the start: the root of the leading bits of n, an even number sh of bits
\* left out, rounded up
ISqrtLead[n \in Limbs, sh \in Nat] ==
    ISqrtStart[n, BShl[BTrim[<<ISqrtInt[BInt[BShr[n, sh]]] + 1>>], sh \div 2]]
\* the largest r with r * r <= n
ISqrt[n \in Limbs] ==
    IF n = <<>> THEN n
    ELSE ISqrtLead[n, IF BBits[n] <= 2 * LimbBits - 2 THEN 0
                      ELSE 2 * ((BBits[n] - 2 * LimbBits + 3) \div 2)]

---------------------------------------------------------------------------
(* IEEE-754 binary64 (the Python float, numpy float64), round to nearest,  *)
(* ties to even.  A finite float is <<s, e, m>>, the value (-1)^s m 2^e:   *)
(* m < 2^53, e >= EMin, and m >= 2^52 unless e = EMin (subnormal); zero    *)
(* is <<s, 0, <<>>>>.                                                      *)

Precision == 53
EMin == 0 - 1074
EMax == 971
EInf == EMax + 1
ENaN == EMax + 2

Float == (0..1) \X Int \X Limbs
Vec == Seq(Float)
Mat == Seq(Vec)

NaN == <<0, ENaN, <<>>>>
PosInf == <<0, EInf, <<>>>>
NegInf == <<1, EInf, <<>>>>
Zero == <<0, 0, <<>>>>

IsNaN[a \in Float] == a[2] = ENaN
IsInf[a \in Float] == a[2] = EInf
IsFinite[a \in Float] == a[2] < EInf
IsZero[a \in Float] == a[2] < EInf /\ a[3] = <<>>
Xor[s \in 0..1, t \in 0..1] == IF s = t THEN 0 ELSE 1

\* the float of sign s, at most Precision + 1 bits m and exponent e >= EMin
Pack[s \in 0..1, m \in Limbs, e \in Int] ==
    IF m = <<>> THEN <<s, 0, <<>>>>
    ELSE IF BBits[m] > Precision THEN Pack[s, BShr[m, 1], e + 1]
    ELSE IF e > EMax THEN <<s, EInf, <<>>>>
    ELSE <<s, e, m>>
\* m 2^e with its sh lowest bits rounded away
RoundShift[s \in 0..1, m \in Limbs, e \in Int, sh \in Int] ==
    IF sh <= 0 THEN Pack[s, BShl[m, -sh], e + sh]
    ELSE Pack[s,
              IF BBit[m, sh - 1] = 1 /\ (BLowNonzero[m, sh - 1] \/ BBit[m, sh] = 1)
              THEN BAdd[BShr[m, sh], <<1>>]
              ELSE BShr[m, sh],
              e + sh]
\* the float nearest to (-1)^s m 2^e
Round[s \in 0..1, m \in Limbs, e \in Int] ==
    IF m = <<>> THEN <<s, 0, <<>>>>
    ELSE RoundShift[s, m, e, Max[BBits[m] - Precision, EMin - e]]

\* float(n) for a machine integer n
FromInt[n \in Int] ==
    IF n < 0
    THEN Round[1, BTrim[<<(-n) % Base, ((-n) \div Base) % Base, (-n) \div (Base * Base)>>], 0]
    ELSE Round[0, BTrim[<<n % Base, (n \div Base) % Base, n \div (Base * Base)>>], 0]

\* <<m, e>> of a finite non-zero float with m of exactly Precision bits
Norm53[a \in Float] == <<BShl[a[3], Precision - BBits[a[3]]], a[2] - (Precision - BBits[a[3]])>>

AddCmp[sa \in 0..1, ma \in Limbs, sb \in 0..1, mb \in Limbs, e \in Int, c \in Int] ==
    IF c = 0 THEN Zero
    ELSE IF c > 0 THEN Round[sa, BSub[ma, mb], e]
    ELSE Round[sb, BSub[mb, ma], e]
AddAligned[sa \in 0..1, ma \in Limbs, sb \in 0..1, mb \in Limbs, e \in Int] ==
    IF sa = sb THEN Round[sa, BAdd[ma, mb], e]
    ELSE AddCmp[sa, ma, sb, mb, e, BCmp[ma, mb]]
\* a + b for finite non-zero a, b with a[2] >= b[2]; a b more than 60 binary
\* places below a does not change it
AddOrdered[a \in Float, b \in Float] ==
    IF a[2] - b[2] > Precision + 7 THEN a
    ELSE AddAligned[a[1], BShl[a[3], a[2] - b[2]], b[1], b[3], b[2]]
\* a + b
RAdd[a \in Float, b \in Float] ==
    IF IsNaN[a] \/ IsNaN[b] THEN NaN
    ELSE IF IsInf[a] THEN (IF IsInf[b] /\ b[1] # a[1] THEN NaN ELSE a)
    ELSE IF IsInf[b] THEN b
    ELSE IF IsZero[a] THEN (IF IsZero[b] THEN <<a[1] * b[1], 0, <<>>>> ELSE b)
    ELSE IF IsZero[b] THEN a
    ELSE IF a[2] >= b[2] THEN AddOrdered[a, b] ELSE AddOrdered[b, a]
RNeg[a \in Float] == IF IsNaN[a] THEN a ELSE <<1 - a[1], a[2], a[3]>>
RSub[a \in Float, b \in Float] == RAdd[a, RNeg[b]]
\* a * b
RMul[a \in Float, b \in Float] ==
    IF IsNaN[a] \/ IsNaN[b] THEN NaN
    ELSE IF IsInf[a] \/ IsInf[b]
         THEN (IF IsZero[a] \/ IsZero[b] THEN NaN ELSE <<Xor[a[1], b[1]], EInf, <<>>>>)
    ELSE Round[Xor[a[1], b[1]], BMul[a[3], b[3]], a[2] + b[2]]
DivRound[s \in 0..1, qr \in Limbs \X Limbs, e \in Int] ==
    Round[s, BAdd[BShl[qr[1], 1], IF qr[2] = <<>> THEN <<>> ELSE <<1>>], e]
DivNorm[s \in 0..1, na \in Limbs \X Int, nb \in Limbs \X Int] ==
    DivRound[s, BDivMod[BShl[na[1], Precision + 3], nb[1]], na[2] - nb[2] - (Precision + 4)]
\* a / b of numpy: x / 0 is inf or nan
RDiv[a \in Float, b \in Float] ==
    IF IsNaN[a] \/ IsNaN[b] THEN NaN
    ELSE IF IsInf[a] THEN (IF IsInf[b] THEN NaN ELSE <<Xor[a[1], b[1]], EInf, <<>>>>)
    ELSE IF IsInf[b] THEN <<Xor[a[1], b[1]], 0, <<>>>>
    ELSE IF IsZero[b] THEN (IF IsZero[a] THEN NaN ELSE <<Xor[a[1], b[1]], EInf, <<>>>>)
    ELSE IF IsZero[a] THEN <<Xor[a[1], b[1]], 0, <<>>>>
    ELSE DivNorm[Xor[a[1], b[1]], Norm53[a], Norm53[b]]
SqrtRound[n \in Limbs, r \in Limbs, e \in Int] ==
    Round[0, BAdd[BShl[r, 1], IF BMul[r, r] = n THEN <<>> ELSE <<1>>], e - 1]
SqrtScaled[n \in Limbs, e \in Int] == SqrtRound[n, ISqrt[n], e]
SqrtNorm[na \in Limbs \X Int, k \in Nat] == SqrtScaled[BShl[na[1], k], (na[2] - k) \div 2]
\* sqrt(a)
RSqrt[a \in Float] ==
    IF IsNaN[a] THEN NaN
    ELSE IF IsZero[a] THEN a
    ELSE IF a[1] = 1 THEN NaN
    ELSE IF IsInf[a] THEN a
    ELSE SqrtNorm[Norm53[a], Precision + 5 + ((Norm53[a][2] - EMin) % 2)]
RAbs[a \in Float] == <<0, a[2], a[3]>>

\* compares magnitudes: -1, 0 or 1
MagCmp[a \in Float, b \in Float] ==
    IF a[3] = <<>> /\ a[2] = 0 THEN (IF b[3] = <<>> /\ b[2] = 0 THEN 0 ELSE -1)
    ELSE IF b[3] = <<>> /\ b[2] = 0 THEN 1
    ELSE IF a[2] < b[2] THEN -1
    ELSE IF a[2] > b[2] THEN 1
    ELSE BCmp[a[3], b[3]]
\* -1, 0, 1 for a negative, zero, positive
Sgn[a \in Float] == IF IsZero[a] THEN 0 ELSE 1 - 2 * a[1]
\* a < b: false when either is nan
RLt[a \in Float, b \in Float] ==
    IF IsNaN[a] \/ IsNaN[b] THEN FALSE
    ELSE IF Sgn[a] # Sgn[b] THEN Sgn[a] < Sgn[b]
    ELSE IF Sgn[a] = 1 THEN MagCmp[a, b] < 0
    ELSE IF Sgn[a] = -1 THEN MagCmp[b, a] < 0
    ELSE FALSE
\* a <= b: false when either is nan
RLe[a \in Float, b \in Float] == ~IsNaN[a] /\ ~IsNaN[b] /\ ~RLt[b, a]
\* a == b: 0.0 == -0.0, nan differs from itself
REq[a \in Float, b \in Float] == ~IsNaN[a] /\ ~IsNaN[b] /\ ~RLt[a, b] /\ ~RLt[b, a]

\* the float literal n / d
Q[n \in Int, d \in Int] == RDiv[FromInt[n], FromInt[d]]

---------------------------------------------------------------------------
(* numpy arrays of floats. *)

\* the entries from the k-th on added to acc one after the other
SumFrom[s \in Vec, k \in Nat, acc \in Float] ==
    IF k > Len(s) THEN acc ELSE SumFrom[s, k + 1, RAdd[acc, s[k]]]
\* the entries from the k-th on subtracted from acc one after the other
SubFrom[s \in Vec, k \in Nat, acc \in Float] ==
    IF k > Len(s) THEN acc ELSE SubFrom[s, k + 1, RSub[acc, s[k]]]
\* np.sum(s) of a contiguous array: numpy's pairwise summation. Fewer than
\* PwUnroll entries are added one after the other from 0.0; up to PwBlockSize
\* entries are added in PwUnroll interleaved lanes that are then combined in
\* pairs, the entries past the last full group of PwUnroll following one by
\* one; a longer array is split in two halves, the first a multiple of PwUnroll
\* long. The reduction adds the sum to its identity 0.0.
PwUnroll == 8
PwBlockSize == 128
\* lane k: the entries k, k + PwUnroll, k + 2 * PwUnroll, ... of the first m
PwLane[s \in Vec, k \in Nat, m \in Nat] ==
    SumFrom[[j \in 1..((m \div PwUnroll) - 1) |-> s[k + j * PwUnroll]], 1, s[k]]
PwBlock[s \in Vec] ==
    LET m == Len(s) - (Len(s) % PwUnroll)
        r == [k \in 1..PwUnroll |-> PwLane[s, k, m]]
    IN SumFrom[[j \in 1..(Len(s) - m) |-> s[m + j]], 1,
               RAdd[RAdd[RAdd[r[1], r[2]], RAdd[r[3], r[4]]],
                    RAdd[RAdd[r[5], r[6]], RAdd[r[7], r[8]]]]]
PairwiseSum[s \in Vec] ==
    IF Len(s) < PwUnroll THEN SumFrom[s, 1, Zero]
    ELSE IF Len(s) <= PwBlockSize THEN PwBlock[s]
    ELSE LET h == (Len(s) \div 2) - ((Len(s) \div 2) % PwUnroll)
         IN RAdd[PairwiseSum[SubSeq(s, 1, h)], PairwiseSum[SubSeq(s, h + 1, Len(s))]]
RSum[s \in Vec] == RAdd[Zero, PairwiseSum[s]]
\* np.dot(u, v) of two vectors
Dot[u \in Vec, v \in Vec] == SumFrom[[k \in 1..Len(u) |-> RMul[u[k], v[k]]], 1, Zero]

\* numpy broadcasting of two arrays of shape (n,), (1,) or one of each
Bc[u \in Vec, k \in Nat] == IF Len(u) = 1 THEN u[1] ELSE u[k]
BcLen[u \in Vec, v \in Vec] == IF Len(u) > Len(v) THEN Len(u) ELSE Len(v)

VAdd[u \in Vec, v \in Vec] == [k \in 1..BcLen[u, v] |-> RAdd[Bc[u, k], Bc[v, k]]]
VSub[u \in Vec, v \in Vec] == [k \in 1..BcLen[u, v] |-> RSub[Bc[u, k], Bc[v, k]]]
VScaleDiv[u \in Vec, c \in Float] == [k \in 1..Len(u) |-> RDiv[u[k], c]]
zeros_like[u \in Vec] == [k \in 1..Len(u) |-> Zero]
\* np.sum(u ** 2)
SumSq[u \in Vec] == RSum[[k \in 1..Len(u) |-> RMul[u[k], u[k]]]]

---------------------------------------------------------------------------
(* Linear algebra of _reduce: x is n_samples rows of n_features entries. *)

NFeatures(m) == Len(m[1])

Column[m \in Mat, i \in Nat] == [s \in 1..Len(m) |-> m[s][i]]

\* np.dot(x.T, x)
XtX[m \in Mat] ==
    [i \in 1..NFeatures(m) |->
        [j \in 1..NFeatures(m) |-> Dot[Column[m, i], Column[m, j]]]]

\* np.dot(x.T, y)
XtY[m \in Mat, v \in Vec] == [i \in 1..NFeatures(m) |-> Dot[Column[m, i], v]]

\* a + np.diag(np.full(n, d)): d is added on the diagonal and 0.0 elsewhere
AddDiag[a \in Mat, d \in Float] ==
    [i \in 1..Len(a) |-> [j \in 1..Len(a) |-> RAdd[a[i][j], IF i = j THEN d ELSE Zero]]]
\* np.dot(x.T, x) + np.diag(np.full(x.shape[1], 1.0 / self.nu))
NormalMatrix[m \in Mat, n \in Float] == AddDiag[XtX[m], RDiv[FromInt[1], n]]

MatVec[a \in Mat, v \in Vec] == [i \in 1..Len(a) |-> Dot[a[i], v]]

\* np.isfinite(a).all(), the check_finite test of scipy
AllFinite[a \in Mat] == \A i \in 1..Len(a) : \A j \in 1..Len(a[i]) : IsFinite[a[i][j]]
VecFinite[v \in Vec] == \A k \in 1..Len(v) : IsFinite[v[k]]

\* BLAS dtrsm, left side, upper triangle, transposed: c^T z = b with c the
\* upper triangle, row by row from the first, the products of row i subtracted
\* from b[i] in the order of the rows above it; z holds the entries before the i-th
ForwardFrom[c \in Mat, b \in Vec, z \in Vec, i \in Nat] ==
    IF i > Len(b) THEN z
    ELSE ForwardFrom[c, b,
             Append(z, RDiv[SubFrom[[k \in 1..(i - 1) |-> RMul[c[k][i], z[k]]], 1, b[i]],
                            c[i][i]]),
             i + 1]

\* the n by n block of a whose first diagonal entry is a[lo][lo]
SubMat[a \in Mat, lo \in Nat, n \in Nat] ==
    [r \in 1..n |-> [c \in 1..n |-> a[lo + r - 1][lo + c - 1]]]
\* the columns to the right of that block, each as a vector of its n rows
RightColumns[a \in Mat, lo \in Nat, n \in Nat, w \in Nat] ==
    [j \in 1..w |-> [r \in 1..n |-> a[lo + r - 1][lo + n + j - 1]]]
\* a with those columns replaced by the vectors X
PutRight[a \in Mat, lo \in Nat, n \in Nat, X \in Seq(Vec)] ==
    [r \in 1..Len(a) |->
        [c \in 1..Len(a) |->
            IF r >= lo /\ r < lo + n /\ c >= lo + n /\ c < lo + n + Len(X)
            THEN X[c - lo - n + 1][r - lo + 1]
            ELSE a[r][c]]]
\* dtrsm of dpotrf2: A12 := U11^-T A12, column by column
Potrf2Trsm[a \in Mat, lo \in Nat, n1 \in Nat, n2 \in Nat] ==
    PutRight[a, lo, n1,
             [j \in 1..n2 |->
                 ForwardFrom[SubMat[a, lo, n1], RightColumns[a, lo, n1, n2][j], <<>>, 1]]]
\* BLAS dsyrk of dpotrf2: A22 := A22 - A12^T A12 on the upper triangle, each
\* entry less the sum, accumulated from 0.0, of the n1 products above it
Potrf2Syrk[a \in Mat, lo \in Nat, n1 \in Nat, n2 \in Nat] ==
    [r \in 1..Len(a) |->
        [c \in 1..Len(a) |->
            IF r >= lo + n1 /\ r < lo + n1 + n2 /\ c >= r /\ c < lo + n1 + n2
            THEN RSub[a[r][c],
                      Dot[[l \in 1..n1 |-> a[lo + l - 1][r]],
                          [l \in 1..n1 |-> a[lo + l - 1][c]]]]
            ELSE a[r][c]]]
\* the pivot of a block of one entry
Potrf2Pivot[a \in Mat, lo \in Nat] ==
    [r \in 1..Len(a) |->
        [c \in 1..Len(a) |-> IF r = lo /\ c = lo THEN RSqrt[a[r][c]] ELSE a[r][c]]]
\* LAPACK dpotrf2, upper: the block of n rows from a[lo][lo] is factored in
\* place as U^T U by halving: the leading half, the rows right of it (dtrsm),
\* the update of the trailing half (dsyrk), the trailing half. A pivot that is
\* not positive leaves nan or zero on the diagonal. The entries below the
\* diagonal are not referenced: they stay those of a.
Potrf2[a \in Mat, lo \in Nat, n \in Nat] ==
    IF n = 0 THEN a
    ELSE IF n = 1 THEN Potrf2Pivot[a, lo]
    ELSE Potrf2[Potrf2Syrk[Potrf2Trsm[Potrf2[a, lo, n \div 2],
                                      lo, n \div 2, n - (n \div 2)],
                           lo, n \div 2, n - (n \div 2)],
                lo + (n \div 2), n - (n \div 2)]
\* LAPACK dpotrf, upper, below its block size
Factor[a \in Mat] == Potrf2[a, 1, Len(a)]

\* the pair (c, lower) that cho_factor returns, lower being False
PivotsPositive[f \in Mat] ==
    IF \A i \in 1..Len(f) : RLt[Zero, f[i][i]]
    THEN [err |-> "", c |-> <<f, FALSE>>]
    ELSE [err |-> "LinAlgError", c |-> Unset]
\* scipy.linalg.cho_factor: rejects non-finite input, then fails unless every pivot
\* is positive (the matrix is positive-definite).
cho_factor[a \in Mat] ==
    IF ~AllFinite[a] THEN [err |-> "ValueError", c |-> Unset] ELSE PivotsPositive[Factor[a]]

\* BLAS dtrsm, left side, lower triangle, transposed: c^T w = z with c the
\* lower triangle, row by row from the last, the products of row i subtracted
\* from z[i] in the order of the rows below it; w holds the entries after the i-th
BackLowerFrom[c \in Mat, z \in Vec, w \in Vec, i \in Nat] ==
    IF i = 0 THEN w
    ELSE BackLowerFrom[c, z,
             <<RDiv[SubFrom[[k \in 1..Len(w) |-> RMul[c[i + k][i], w[k]]], 1, z[i]],
                    c[i][i]]>> \o w,
             i - 1]
\* BLAS dtrsm, left side, not transposed, one column k of c: the quotient q of
\* b[k] by the pivot replaces it, and q times the column is subtracted from the
\* entries above it (upper) or below it (lower)
AxpyColumn[c \in Mat, b \in Vec, k \in Nat, q \in Float, upper \in BOOLEAN] ==
    [i \in 1..Len(b) |->
        IF i = k THEN q
        ELSE IF (upper /\ i < k) \/ (~upper /\ i > k) THEN RSub[b[i], RMul[q, c[i][k]]]
        ELSE b[i]]
\* a column whose entry b[k] equals zero is skipped
AxpyStep[c \in Mat, b \in Vec, k \in Nat, upper \in BOOLEAN] ==
    IF REq[b[k], Zero] THEN b ELSE AxpyColumn[c, b, k, RDiv[b[k], c[k][k]], upper]
\* upper triangle, c w = z: the columns from the last to the first
UpperFrom[c \in Mat, b \in Vec, k \in Nat] ==
    IF k = 0 THEN b ELSE UpperFrom[c, AxpyStep[c, b, k, TRUE], k - 1]
\* lower triangle, c z = b: the columns from the first to the last
LowerFrom[c \in Mat, b \in Vec, k \in Nat] ==
    IF k > Len(b) THEN b ELSE LowerFrom[c, AxpyStep[c, b, k, FALSE], k + 1]
\* LAPACK dpotrs: two triangular solves with the triangle that lower names
Substitute[c \in Mat, lower \in BOOLEAN, b \in Vec] ==
    IF lower THEN BackLowerFrom[c, LowerFrom[c, b, 1], <<>>, Len(b)]
    ELSE UpperFrom[c, ForwardFrom[c, b, <<>>, 1], Len(b)]

\* scipy.linalg.cho_solve((c, lower), b): rejects a non-finite factor or
\* right-hand side (check_finite), then solves with the triangle that lower names
cho_solve[ch \in Mat \X BOOLEAN, b \in Vec] ==
    IF ~AllFinite[ch[1]] \/ ~VecFinite[b] THEN [err |-> "ValueError", w |-> Unset]
    ELSE [err |-> "", w |-> Substitute[ch[1], ch[2], b]]

---------------------------------------------------------------------------
(* Proximal operators (pysindy.utils.get_prox). *)

Registered == {"l0", "l1", "cad"}

\* np.sign
sign[a \in Float] == IF IsNaN[a] THEN NaN ELSE FromInt[Sgn[a]]

\* hard threshold: keeps the value where |value| >= threshold
prox_l0[v \in Vec, t \in Float] == [k \in 1..Len(v) |-> IF RLe[t, RAbs[v[k]]] THEN v[k] ELSE Zero]

\* soft threshold: sign[value] * max(|value| - threshold, 0)
prox_l1[v \in Vec, t \in Float] ==
    [k \in 1..Len(v) |->
        LET d == RSub[RAbs[v[k]], t]
        IN RMul[sign[v[k]], IF IsNaN[d] \/ RLt[Zero, d] THEN d ELSE Zero]]

\* the upper bound a of the clipped absolute deviation is CadFactor * threshold
CadFactor == 5

\* clipped absolute deviation: 0 up to threshold, the value above a, and the
\* line joining (threshold, 0) to (a, a) in between
prox_cad[v \in Vec, t \in Float] ==
    [k \in 1..Len(v) |->
        LET a == RMul[FromInt[CadFactor], t]
            m == RAbs[v[k]]
        IN IF RLt[a, m] THEN v[k]
           ELSE IF RLe[m, t] THEN Zero
           ELSE RMul[sign[v[k]], RDiv[RMul[RSub[m, t], a], RSub[a, t]]]]

get_prox(name) == IF name \in Registered THEN name ELSE "UnknownOperator"

\* self.prox(coef_full, self.threshold)
ApplyProx(p, v, t) ==
    CASE p = "l0" -> prox_l0[v, t]
      [] p = "l1" -> prox_l1[v, t]
      [] p = "cad" -> prox_cad[v, t]

---------------------------------------------------------------------------
(* Inputs. *)

IntVec[s \in Seq(Int)] == [k \in 1..Len(s) |-> FromInt[s[k]]]

Thresholds == {NegInf, Q[-1, 2], Zero, Q[1, 2]}
Nus == {NegInf, Q[-1, 1], Zero, Q[1, 2], Q[1, 1], PosInf}
Tols == {NegInf, Zero, Q[3, 256], Q[1, 8], PosInf}
Thresholders == {"l0", "l1", "cad", "unknown"}
MaxIters == 0..MaxIter

\* design matrix, response and initial guess of a fit call
FitInputs ==
    { [x |-> <<IntVec[<<1>>]>>, y |-> IntVec[<<1>>], guess |-> IntVec[<<0>>]],
      [x |-> <<IntVec[<<1>>], IntVec[<<1>>]>>, y |-> IntVec[<<1, -3>>], guess |-> IntVec[<<1>>]],
      [x |-> <<IntVec[<<1, 1>>]>>, y |-> IntVec[<<2>>], guess |-> IntVec[<<1, 0>>]],
      [x |-> <<<<NaN>>>>, y |-> IntVec[<<1>>], guess |-> IntVec[<<0>>]],
      [x |-> <<IntVec[<<1>>]>>, y |-> <<PosInf>>, guess |-> IntVec[<<0>>]] }

NoFit == [inp |-> [x |-> Unset, y |-> Unset, guess |-> Unset], coef |-> Unset, coef_full |-> Unset]

---------------------------------------------------------------------------
(* Construction: SR3.__init__. *)

Init ==
    /\ inst = "none"
    /\ args = Unset
    /\ threshold = Unset /\ nu = Unset /\ tol = Unset
    /\ thresholder = UnsetName /\ prox = UnsetName /\ max_iter = UnsetInt
    /\ iters = UnsetInt /\ history_ = Unset /\ coef_ = Unset /\ coef_full_ = Unset
    /\ pc = "idle"
    /\ x = Unset /\ y = Unset /\ guess = Unset
    /\ coef_sparse = Unset /\ coef_full = Unset /\ cho = Unset
    /\ x_transpose_y = Unset /\ loop_i = 0
    /\ warning = "none"
    /\ exit_ = "none"
    /\ prev = NoFit

\* Validate with the check of nu written nu < 0
ValidateNuNegative(t, n, tl, mi) ==
    IF RLt[t, Zero] THEN "threshold cannot be negative"
    ELSE IF RLt[n, Zero] THEN "nu must be positive"
    ELSE IF RLe[tl, Zero] THEN "tol must be positive"
    ELSE IF mi <= 0 THEN "max_iter must be positive"
    ELSE ""

\* the four numeric checks of __init__, in order: the error raised, "" if none
Validate(t, n, tl, mi) ==
    IF RLt[t, Zero] THEN "threshold cannot be negative"
    ELSE IF RLe[n, Zero] THEN "nu must be positive"
    ELSE IF RLe[tl, Zero] THEN "tol must be positive"
    ELSE IF mi <= 0 THEN "max_iter must be positive"
    ELSE ""

\* BaseOptimizer.__init__: a fresh iteration counter and an empty history
BaseInit ==
    /\ iters' = 0
    /\ history_' = <<>>
    /\ UNCHANGED <<coef_, coef_full_>>

Construct(t, n, tl, th, mi) ==
    /\ inst = "none"
    /\ args' = [threshold |-> t, nu |-> n, tol |-> tl, thresholder |-> th, max_iter |-> mi]
    /\ BaseInit
    /\ IF Validate(t, n, tl, mi) # ""
       THEN /\ inst' = "ValueError"
            /\ UNCHANGED hyper
       ELSE /\ threshold' = t
            /\ nu' = n
            /\ tol' = tl
            /\ thresholder' = th
            /\ IF get_prox(th) = "UnknownOperator"
               THEN /\ inst' = "UnknownOperator"
                    /\ UNCHANGED <<prox, max_iter>>
               ELSE /\ inst' = "ok"
                    /\ prox' = get_prox(th)
                    /\ max_iter' = mi
    /\ UNCHANGED <<pc, frame, warning, exit_, prev>>

---------------------------------------------------------------------------
(* A fit call: the caller's preparation, then SR3._reduce step by step. *)

InFit == pc \in {"begin", "full", "sparse", "check", "warn", "end"}

\* BaseOptimizer.fit up to its call of _reduce: the iteration counter and the
\* history start afresh and the initial guess is placed in coef_.
Fit(inp) ==
    /\ inst = "ok"
    /\ ~InFit
    /\ iters' = 0
    /\ history_' = <<>>
    /\ coef_' = inp.guess
    /\ UNCHANGED coef_full_
    /\ x' = inp.x
    /\ y' = inp.y
    /\ guess' = inp.guess
    /\ coef_sparse' = Unset
    /\ coef_full' = Unset
    /\ cho' = Unset
    /\ x_transpose_y' = Unset
    /\ loop_i' = 0
    /\ warning' = "none"
    /\ exit_' = "none"
    /\ pc' = "begin"
    /\ UNCHANGED <<inst, args, hyper, prev>>

\* LoopHead with the loop written range(max_iter + 1)
LoopHeadInclusive(i) == IF i <= max_iter THEN "full" ELSE "warn"

\* the for statement: the body runs while iterations remain, then the else clause
LoopHead(i) == IF i < max_iter THEN "full" ELSE "warn"

\* cho_factor(np.dot(x.T, x) + np.diag(np.full(x.shape[1], 1.0 / self.nu))):
\* the division of the float 1.0 by a zero nu raises before the factorization
normal_factor(m, n) ==
    IF IsZero[n] THEN [err |-> "ZeroDivisionError", c |-> Unset]
    ELSE cho_factor[NormalMatrix[m, n]]

\* ReduceBegin with a failed factorization reported as a convergence warning
ReduceBeginWarns ==
    /\ pc = "begin"
    /\ coef_sparse' = coef_
    /\ \E f \in {normal_factor(x, nu)} :
          IF f.err # ""
          THEN /\ pc' = "raised"
               /\ warning' = "shown"
               /\ UNCHANGED <<cho, x_transpose_y>>
          ELSE /\ cho' = f.c
               /\ x_transpose_y' = XtY[x, y]
               /\ pc' = LoopHead(0)
               /\ UNCHANGED warning
    /\ loop_i' = 0
    /\ UNCHANGED <<inst, args, hyper, attrs, x, y, guess, coef_full, exit_, prev>>

\* _reduce up to the loop: the factorization and x^T y
ReduceBegin ==
    /\ pc = "begin"
    /\ coef_sparse' = coef_
    /\ \E f \in {normal_factor(x, nu)} :
          IF f.err # ""
          THEN /\ pc' = "raised"
               /\ UNCHANGED <<cho, x_transpose_y>>
          ELSE /\ cho' = f.c
               /\ x_transpose_y' = XtY[x, y]
               /\ pc' = LoopHead(0)
    /\ loop_i' = 0
    /\ UNCHANGED <<inst, args, hyper, attrs, x, y, guess, coef_full, warning, exit_, prev>>

\* update_full_coef with the right-hand side written x^T y + v * nu
update_full_coef_times_nu(c, xty, v) ==
    cho_solve[c, VAdd[xty, [k \in 1..Len(v) |-> RMul[v[k], nu]]]]

\* _update_full_coef: the outcome of cho_solve, an error or the value returned
update_full_coef(c, xty, v) == cho_solve[c, VAdd[xty, VScaleDiv[v, nu]]]

\* UpdateFullCoef without the increment of iters
UpdateFullCoefUncounted ==
    /\ pc = "full"
    /\ \E r \in {update_full_coef(cho, x_transpose_y, coef_sparse)} :
          IF r.err # ""
          THEN /\ pc' = "raised"
               /\ UNCHANGED coef_full
          ELSE /\ coef_full' = r.w
               /\ pc' = "sparse"
    /\ UNCHANGED <<inst, args, hyper, attrs, x, y, guess,
                   coef_sparse, cho, x_transpose_y, loop_i, warning, exit_, prev>>

\* _update_full_coef: cho_solve raises before anything is assigned or counted
UpdateFullCoef ==
    /\ pc = "full"
    /\ \E r \in {update_full_coef(cho, x_transpose_y, coef_sparse)} :
          IF r.err # ""
          THEN /\ pc' = "raised"
               /\ UNCHANGED <<coef_full, iters>>
          ELSE /\ coef_full' = r.w
               /\ iters' = iters + 1
               /\ pc' = "sparse"
    /\ UNCHANGED <<inst, args, hyper, history_, coef_, coef_full_, x, y, guess,
                   coef_sparse, cho, x_transpose_y, loop_i, warning, exit_, prev>>

\* _update_sparse_coef: the value returned
update_sparse_coef(w) == ApplyProx(prox, w, threshold)

UpdateSparseCoef ==
    /\ pc = "sparse"
    /\ \E v \in {update_sparse_coef(coef_full)} :
          /\ coef_sparse' = v
          /\ history_' = Append(history_, v)
    /\ pc' = "check"
    /\ UNCHANGED <<inst, args, hyper, iters, coef_, coef_full_, x, y, guess,
                   coef_full, cho, x_transpose_y, loop_i, warning, exit_, prev>>

\* convergence_criterion without the square: np.sum(np.abs(this_coef - last_coef))
convergence_criterion_abs(h) ==
    LET this_coef == h[Len(h)]
        last_coef == IF Len(h) > 1 THEN h[Len(h) - 1] ELSE zeros_like[this_coef]
        d == VSub[this_coef, last_coef]
    IN RSum[[k \in 1..Len(d) |-> RAbs[d[k]]]]

convergence_criterion(h) ==
    LET this_coef == h[Len(h)]
        last_coef == IF Len(h) > 1 THEN h[Len(h) - 1] ELSE zeros_like[this_coef]
    IN SumSq[VSub[this_coef, last_coef]]

\* the test that breaks out of the loop
Converged(h) == RLt[convergence_criterion(h), tol]

ConvergenceCheck ==
    /\ pc = "check"
    /\ IF Converged(history_)
       THEN /\ exit_' = "Converged"
            /\ pc' = "end"
            /\ UNCHANGED loop_i
       ELSE /\ loop_i' = loop_i + 1
            /\ pc' = LoopHead(loop_i + 1)
            /\ UNCHANGED exit_
    /\ UNCHANGED <<inst, args, hyper, attrs, x, y, guess, coef_sparse, coef_full,
                   cho, x_transpose_y, warning, prev>>

\* Warn without the warning
WarnSilently ==
    /\ pc = "warn"
    /\ exit_' = "Exhausted"
    /\ pc' = "end"
    /\ UNCHANGED <<inst, args, hyper, attrs, frame, warning, prev>>

\* what the warnings filter in force makes of warnings.warn(..., ConvergenceWarning):
\* the warning is shown (actions "always", "default", "module", "once"), dropped
\* (action "ignore", or a repeat under "default", "module", "once"), or raised as
\* an exception (action "error")
WarnOutcomes == {"shown", "ignored", "raised"}

\* the else clause of the loop: max_iter iterations ran without a break, and
\* warnings.warn is called; when it raises, the two assignments that end
\* _reduce are not reached
Warn ==
    /\ pc = "warn"
    /\ \E o \in WarnOutcomes :
          /\ warning' = o
          /\ pc' = IF o = "raised" THEN "raised" ELSE "end"
    /\ exit_' = "Exhausted"
    /\ UNCHANGED <<inst, args, hyper, attrs, frame, prev>>

\* ReduceEnd storing a full coefficient solved once more from the final sparse one
ReduceEndResolved ==
    /\ pc = "end"
    /\ coef_' = coef_sparse
    /\ coef_full_' = update_full_coef(cho, x_transpose_y, coef_sparse).w
    /\ pc' = "returned"
    /\ prev' = [inp |-> [x |-> x, y |-> y, guess |-> guess],
                coef |-> coef_sparse, coef_full |-> coef_full]
    /\ UNCHANGED <<inst, args, hyper, iters, history_, frame, warning, exit_>>

\* the two assignments that end _reduce
ReduceEnd ==
    /\ pc = "end"
    /\ coef_' = coef_sparse
    /\ coef_full_' = coef_full
    /\ pc' = "returned"
    /\ prev' = [inp |-> [x |-> x, y |-> y, guess |-> guess],
                coef |-> coef_sparse, coef_full |-> coef_full]
    /\ UNCHANGED <<inst, args, hyper, iters, history_, frame, warning, exit_>>

ReduceStep ==
    \/ ReduceBegin
    \/ UpdateFullCoef
    \/ UpdateSparseCoef
    \/ ConvergenceCheck
    \/ Warn
    \/ ReduceEnd

Next ==
    \/ \E t \in Thresholds, n \in Nus, tl \in Tols, th \in Thresholders, mi \in MaxIters :
           Construct(t, n, tl, th, mi)
    \/ \E inp \in FitInputs : Fit(inp)
    \/ ReduceBegin
    \/ UpdateFullCoef
    \/ UpdateSparseCoef
    \/ ConvergenceCheck
    \/ Warn
    \/ ReduceEnd

Spec == Init /\ [][Next]_vars

\* a fit call in progress runs on: the program is sequential and nothing blocks it
FairSpec == Spec /\ WF_vars(ReduceStep)

---------------------------------------------------------------------------
(* Properties. *)

Last(h) == h[Len(h)]

\* squared distance between the last two history entries, the entry before a
\* single one being all zeros
SqDistAt(h, k) ==
    RSum[[j \in 1..Len(h[k]) |->
             LET d == RSub[h[k][j], IF k > 1 THEN h[k - 1][j] ELSE Zero]
             IN RMul[d, d]]]

\* the full coefficient for the sparse coefficient v, solved afresh from the
\* design matrix m, the response r and n = nu
SolvedFrom(m, r, n, v) ==
    Substitute[Factor[NormalMatrix[m, n]], FALSE, VAdd[XtY[m, r], VScaleDiv[v, n]]]

\* 2^-40, far above the rounding error of a solve and far below any coefficient
ResidualBound == RDiv[FromInt[1], RMul[FromInt[2^20], FromInt[2^20]]]

\* w satisfies (m^T m + I/n) w = m^T r + v/n up to rounding
NormalEquationHolds(m, r, n, w, v) ==
    LET d == VSub[MatVec[NormalMatrix[m, n], w], VAdd[XtY[m, r], VScaleDiv[v, n]]]
    IN \A k \in 1..Len(d) : RLe[RAbs[d[k]], ResidualBound]

Finished == pc \in {"returned", "raised"}

\* C1: a fit call that has begun terminates (returns or raises), and when it
\* has, at most max_iter iterations of the full-update / sparse-update pair
\* were performed.
C1_Terminates ==
    (pc = "begin") ~> (Finished /\ iters <= max_iter /\ Len(history_) <= max_iter)

C1_Witness ==
    /\ pc = "returned"
    /\ exit_ = "Exhausted"
    /\ max_iter > 1
    /\ iters = max_iter

\* C2: when the loop has exited, the criterion over the last two history
\* entries is < tol after a Converged exit and >= tol after an Exhausted one,
\* also when the warning of the Exhausted exit is raised as an exception.
C2_ExitCriterion ==
    (pc \in {"end", "returned"} \/ exit_ # "none") =>
        /\ exit_ \in {"Converged", "Exhausted"}
        /\ exit_ = "Converged" => RLt[SqDistAt(history_, Len(history_)), tol]
        /\ exit_ = "Exhausted" => RLe[tol, SqDistAt(history_, Len(history_))]

C2_Witness ==
    /\ pc = "returned"
    /\ exit_ = "Converged"
    /\ Len(history_) > 1
    /\ SqDistAt(history_, Len(history_)) # Zero

\* C3 as claimed: a warning was emitted exactly when max_iter iterations ran
\* and the criterion was >= tol after each; a fit that warned is not aborted,
\* and the fit returns with the last sparse and full coefficients stored
\* either way.
C3_Warning ==
    /\ (pc \in {"end", "returned"} \/ exit_ # "none") =>
           (warned <=>
               /\ iters = max_iter
               /\ \A k \in 1..Len(history_) : RLe[tol, SqDistAt(history_, k)])
    /\ warned => pc \in {"end", "returned"}
    /\ pc = "returned" =>
           /\ coef_ = Last(history_)
           /\ coef_full_ = coef_full
           /\ coef_full # Unset

\* C4 as claimed: with max_iter = 1 a fit that returns has exited Exhausted,
\* with one history entry, a warning and a stored coefficient pair.
C4_AlwaysExhausted ==
    (max_iter = 1 /\ pc = "returned") =>
        /\ exit_ = "Exhausted"
        /\ warned
        /\ Len(history_) = 1
        /\ coef_ = history_[1]
        /\ coef_full_ = coef_full

\* C4 amended: with max_iter = 1 a fit whose factorization and solve did not
\* raise ran one iteration and recorded one history entry. It exited
\* Converged, without a warning, exactly when the criterion of that entry is
\* < tol, and Exhausted, with warnings.warn called, otherwise. It then returns
\* with the coefficient pair of that iteration stored, unless the warning is
\* raised as an exception: then the fit raises, coef_ is still the initial
\* guess and coef_full_ is what it was before the fit.
C4_OneIteration ==
    (max_iter = 1 /\ (pc \in {"check", "warn", "end", "returned"} \/ exit_ # "none")) =>
        /\ iters = 1
        /\ Len(history_) = 1
        /\ pc \in {"end", "returned", "raised"} =>
               /\ warned <=> ~RLt[SqDistAt(history_, 1), tol]
               /\ exit_ = (IF warned THEN "Exhausted" ELSE "Converged")
               /\ pc = "raised" <=> warning = "raised"
        /\ pc = "returned" =>
               /\ coef_ = history_[1]
               /\ coef_full_ = coef_full
               /\ coef_full # Unset
        /\ pc = "raised" =>
               /\ coef_ = guess
               /\ coef_full_ = prev.coef_full

C4_Witness ==
    /\ max_iter = 1
    /\ pc = "returned"
    /\ exit_ = "Converged"
    /\ ~warned
    /\ Len(history_) = 1

\* C5: after every step the history holds one entry per iteration counted
\* (one fewer between the two updates of an iteration), never more than
\* max_iter, a fit that returned has Len(history_) = iters, and a step of a
\* fit either leaves the history alone or appends one entry to it.
C5_History ==
    [][/\ (pc' \in {"check", "warn", "end", "returned", "raised"}) =>
              (Len(history_') = iters' /\ iters' <= max_iter')
       /\ (pc' = "sparse") => (Len(history_') = iters' - 1 /\ iters' <= max_iter')
       /\ InFit =>
              \/ history_' = history_
              \/ /\ Len(history_') = Len(history_) + 1
                 /\ SubSeq(history_', 1, Len(history_)) = history_
                 /\ pc = "sparse"]_vars

C5_Witness ==
    /\ pc = "returned"
    /\ Len(history_) = 2
    /\ iters = 2
    /\ max_iter > 2

\* C6: construction fails exactly when a numeric parameter is out of range or
\* the thresholder is not registered; then no instance is ever fitted, and
\* after a failed numeric check no hyperparameter is stored; it succeeds with
\* the parameters stored as given otherwise.
C6_Construction ==
    inst # "none" =>
        LET bad == \/ RLt[args.threshold, Zero]
                   \/ RLe[args.nu, Zero]
                   \/ RLe[args.tol, Zero]
                   \/ args.max_iter < 1
            unknown == args.thresholder \notin {"l0", "l1", "cad"}
        IN /\ inst = "ok" <=> (~bad /\ ~unknown)
           /\ inst # "ok" => (pc = "idle" /\ prev = NoFit)
           /\ bad => /\ inst = "ValueError"
                     /\ threshold = Unset /\ nu = Unset /\ tol = Unset
                     /\ thresholder = UnsetName /\ prox = UnsetName
                     /\ max_iter = UnsetInt
           /\ inst = "ok" =>
                  /\ threshold = args.threshold /\ nu = args.nu /\ tol = args.tol
                  /\ thresholder = args.thresholder /\ prox = args.thresholder
                  /\ max_iter = args.max_iter

C6_Witness ==
    /\ inst = "ValueError"
    /\ args.threshold = Zero
    /\ args.nu = Zero
    /\ nu = Unset

\* C8: during a fit X, Y and the hyperparameters do not change, the factor and
\* x^T y do not change once computed, and every full update is the solve of
\* (X^T X + I/nu) w = X^T Y + v/nu for the current sparse coefficient v, which
\* w satisfies up to rounding.
C8_Frame ==
    [][/\ InFit => (x' = x /\ y' = y /\ hyper' = hyper)
       /\ (InFit /\ pc # "begin") => (cho' = cho /\ x_transpose_y' = x_transpose_y)
       /\ (pc = "begin" /\ pc' # "raised") => (iters = 0 /\ history_ = <<>>)
       /\ (pc' = "sparse") =>
              /\ x_transpose_y' = XtY[x', y']
              /\ coef_full' = SolvedFrom(x', y', nu', coef_sparse')
              /\ NormalEquationHolds(x', y', nu', coef_full', coef_sparse')]_vars

C8_Witness ==
    /\ pc = "sparse"
    /\ iters = 2
    /\ NFeatures(x) = 2
    /\ nu # Q[1, 1]
    /\ coef_sparse # zeros_like[coef_sparse]

\* C9: a fit that returned stored a pair of the same iteration: coef_ is the
\* last history entry and the proximal operator of coef_full_, and coef_full_
\* solves the normal equations for the sparse coefficient before it (the
\* initial guess after one iteration).
C9_ConsistentPair ==
    pc = "returned" =>
        /\ coef_ = Last(history_)
        /\ coef_ = ApplyProx(thresholder, coef_full_, threshold)
        /\ coef_full_ = SolvedFrom(x, y, nu,
               IF Len(history_) > 1 THEN history_[Len(history_) - 1] ELSE guess)
        /\ NormalEquationHolds(x, y, nu, coef_full_,
               IF Len(history_) > 1 THEN history_[Len(history_) - 1] ELSE guess)

C9_Witness ==
    /\ pc = "returned"
    /\ Len(history_) > 1
    /\ coef_ # coef_full_
    /\ coef_ # zeros_like[coef_]
    /\ history_[Len(history_) - 1] # coef_

\* C10: a fit whose design matrix is not finite raises from the factorization,
\* and the raising step leaves iters, history_, coef_, coef_full_ and the
\* warning flag as they were: no iteration ran, coef_ is the initial guess.
C10_FactorizationFailure ==
    [][/\ (pc = "begin" /\ ~AllFinite[x]) => pc' = "raised"
       /\ (pc = "begin" /\ pc' = "raised") =>
              /\ UNCHANGED <<iters, history_, coef_, coef_full_, warning>>
              /\ iters = 0
              /\ history_ = <<>>
              /\ coef_ = guess
              /\ ~warned]_vars

C10_Witness ==
    /\ pc = "raised"
    /\ prev # NoFit
    /\ coef_full_ = prev.coef_full
    /\ coef_ = guess
    /\ coef_ # prev.coef

====
